---------------------------- MODULE Spec2Model ----------------------------
(***************************************************************************)
(* Model of src/app.py: the BankAccount and BankingSystem classes and the  *)
(* Streamlit script that drives them.                                      *)
(*                                                                         *)
(* Money amounts are whole numbers: on them Python's int and float         *)
(* arithmetic and comparisons are exact, so +, - and <= below are the      *)
(* code's +=, -= and <=.  A Python argument is a tagged record, so that    *)
(* isinstance(x, (int, float)) is a test on the tag.                       *)
(***************************************************************************)
EXTENDS Integers, Sequences, FiniteSets, TLC

VARIABLES
    accounts,   \* banking_system.accounts: account number -> BankAccount
    issued,     \* the identifiers uuid.uuid4() has returned so far, oldest first
    now,        \* the clock read by datetime.datetime.now()
    opened,     \* account number -> the initial_balance it was constructed with
    last        \* the call that has just returned: its arguments and its outcome

vars == <<accounts, issued, now, opened, last>>

(***************************************************************************)
(* Bounds and input sets                                                   *)
(***************************************************************************)
MaxTx == 2          \* clock readings: transactions recorded in one run

AccountNumbers == {"u1", "u2"}          \* strings uuid4 can return
UnknownNumber == "zz"                   \* a string uuid4 never returns
LookupInputs == AccountNumbers \cup {UnknownNumber}
HolderNames == {"Alice"}
AccountTypes == {"Savings"}             \* the default account_type

Num(n) == [type |-> "number", v |-> n]
NotANumber == [type |-> "str", s |-> "abc"]
NumberInputs == {Num(-1), Num(0), Num(1), Num(2)}
AmountInputs == NumberInputs \cup {NotANumber}
FormAmounts == {x \in NumberInputs : x.v >= 0}   \* st.number_input(min_value=0.0)
BalanceInputs == {NotANumber, Num(-1), Num(0), Num(2)}   \* initial_balance
FormBalances == {Num(0), Num(2)}         \* st.number_input(min_value=0.0)

None == [none |-> TRUE]
NoError == "no exception"

(***************************************************************************)
(* Python helpers                                                          *)
(***************************************************************************)
isinstance_number(x) == x.type = "number"

\* f"{x:.2f}" of a whole number
Fmt2f(n) == ToString(n) \o ".00"

RECURSIVE Repeat(_, _)
Repeat(s, n) == IF n <= 0 THEN "" ELSE s \o Repeat(s, n - 1)      \* s * n

PadRight(s, width) == s \o Repeat(" ", width - Len(s))           \* f"{s:<width}"
PadLeft(s, width) == Repeat(" ", width - Len(s)) \o s            \* f"{s:>width}"

\* a %m, %d, %H, %M or %S field: two digits, zero-padded
TwoDigits(n) == IF n < 10 THEN "0" \o ToString(n) ELSE ToString(n)

\* the calendar date on which the clock reads 0
Midnight == [year |-> 2026, month |-> 10, day |-> 31]

IsLeap(year) == (year % 4 = 0 /\ year % 100 # 0) \/ year % 400 = 0

DaysInMonth(year, month) ==
    IF month = 2 THEN (IF IsLeap(year) THEN 29 ELSE 28)
    ELSE IF month \in {4, 6, 9, 11} THEN 30 ELSE 31

\* the date n days after date
RECURSIVE AddDays(_, _)
AddDays(date, n) ==
    IF n <= 0 THEN date
    ELSE IF date.day < DaysInMonth(date.year, date.month)
         THEN AddDays([date EXCEPT !.day = @ + 1], n - 1)
    ELSE IF date.month < 12
         THEN AddDays([date EXCEPT !.month = @ + 1, !.day = 1], n - 1)
    ELSE AddDays([year |-> date.year + 1, month |-> 1, day |-> 1], n - 1)

\* '%Y-%m-%d' of a date whose year has four digits; also str(date)
DateStr(date) ==
    ToString(date.year) \o "-" \o TwoDigits(date.month) \o "-" \o TwoDigits(date.day)

\* str(datetime.date.today()) when the clock reads t seconds after the midnight
\* that begins Midnight
date_today(t) == DateStr(AddDays(Midnight, t \div 86400))

\* timestamp.strftime('%Y-%m-%d %H:%M:%S') of the clock reading t, in seconds
\* after the midnight that begins Midnight
Strftime(t) ==
    DateStr(AddDays(Midnight, t \div 86400)) \o " "
        \o TwoDigits((t \div 3600) % 24) \o ":"
        \o TwoDigits((t \div 60) % 60) \o ":"
        \o TwoDigits(t % 60)

Range(seq) == {seq[i] : i \in DOMAIN seq}

Raise(kind, text, self) == [raised |-> kind, value |-> text, self |-> self]
Return(value, self) == [raised |-> NoError, value |-> value, self |-> self]

(***************************************************************************)
(* class BankAccount                                                       *)
(***************************************************************************)
\* a constructor that forgets the opening balance
BankAccount_init_zero(uuid, account_holder_name, initial_balance, account_type, today) ==
    IF ~isinstance_number(initial_balance)
    THEN Raise("TypeError", "Initial balance must be a number.", None)
    ELSE IF initial_balance.v < 0
    THEN Raise("ValueError", "Initial balance cannot be negative.", None)
    ELSE Return(None,
                [account_number |-> uuid,
                 account_holder_name |-> account_holder_name,
                 balance |-> 0,
                 account_type |-> account_type,
                 transactions |-> <<>>,
                 creation_date |-> today])

BankAccount_init(uuid, account_holder_name, initial_balance, account_type, today) ==
    IF ~isinstance_number(initial_balance)
    THEN Raise("TypeError", "Initial balance must be a number.", None)
    ELSE IF initial_balance.v < 0
    THEN Raise("ValueError", "Initial balance cannot be negative.", None)
    ELSE Return(None,
                [account_number |-> uuid,
                 account_holder_name |-> account_holder_name,
                 balance |-> initial_balance.v,
                 account_type |-> account_type,
                 transactions |-> <<>>,
                 creation_date |-> today])

\* a log that grows at the front: transactions.insert(0, ...)
_add_transaction_front(self, transaction_type, amount, timestamp) ==
    [self EXCEPT !.transactions =
        <<[timestamp |-> timestamp, type |-> transaction_type, amount |-> amount]>> \o @]

\* a log that keeps the latest record only: self.transactions = [...]
_add_transaction_replaces(self, transaction_type, amount, timestamp) ==
    [self EXCEPT !.transactions =
        <<[timestamp |-> timestamp, type |-> transaction_type, amount |-> amount]>>]

_add_transaction(self, transaction_type, amount, timestamp) ==
    [self EXCEPT !.transactions =
        Append(@, [timestamp |-> timestamp, type |-> transaction_type, amount |-> amount])]

\* a deposit that rejects negative amounts only
deposit_accepts_zero(self, amount, timestamp) ==
    IF ~isinstance_number(amount)
    THEN Raise("TypeError", "Deposit amount must be a number.", self)
    ELSE IF amount.v < 0
    THEN Raise("ValueError", "Deposit amount must be positive.", self)
    ELSE LET credited == [self EXCEPT !.balance = @ + amount.v]
             after == _add_transaction(credited, "Deposit", amount.v, timestamp)
         IN  Return("Deposited $" \o Fmt2f(amount.v) \o ". New balance: $"
                        \o Fmt2f(after.balance),
                    after)

\* a deposit that assigns the balance: self.balance = amount
deposit_overwrites(self, amount, timestamp) ==
    IF ~isinstance_number(amount)
    THEN Raise("TypeError", "Deposit amount must be a number.", self)
    ELSE IF amount.v <= 0
    THEN Raise("ValueError", "Deposit amount must be positive.", self)
    ELSE LET credited == [self EXCEPT !.balance = amount.v]
             after == _add_transaction(credited, "Deposit", amount.v, timestamp)
         IN  Return("Deposited $" \o Fmt2f(amount.v) \o ". New balance: $"
                        \o Fmt2f(after.balance),
                    after)

\* a deposit that credits the balance and records nothing
deposit_unrecorded(self, amount, timestamp) ==
    IF ~isinstance_number(amount)
    THEN Raise("TypeError", "Deposit amount must be a number.", self)
    ELSE IF amount.v <= 0
    THEN Raise("ValueError", "Deposit amount must be positive.", self)
    ELSE LET after == [self EXCEPT !.balance = @ + amount.v]
         IN  Return("Deposited $" \o Fmt2f(amount.v) \o ". New balance: $"
                        \o Fmt2f(after.balance),
                    after)

deposit(self, amount, timestamp) ==
    IF ~isinstance_number(amount)
    THEN Raise("TypeError", "Deposit amount must be a number.", self)
    ELSE IF amount.v <= 0
    THEN Raise("ValueError", "Deposit amount must be positive.", self)
    ELSE LET credited == [self EXCEPT !.balance = @ + amount.v]
             after == _add_transaction(credited, "Deposit", amount.v, timestamp)
         IN  Return("Deposited $" \o Fmt2f(amount.v) \o ". New balance: $"
                        \o Fmt2f(after.balance),
                    after)

\* a withdrawal without the funds check
withdraw_unchecked(self, amount, timestamp) ==
    IF ~isinstance_number(amount)
    THEN Raise("TypeError", "Withdrawal amount must be a number.", self)
    ELSE IF amount.v <= 0
    THEN Raise("ValueError", "Withdrawal amount must be positive.", self)
    ELSE LET debited == [self EXCEPT !.balance = @ - amount.v]
             after == _add_transaction(debited, "Withdrawal", -amount.v, timestamp)
         IN  Return("Withdrew $" \o Fmt2f(amount.v) \o ". New balance: $"
                        \o Fmt2f(after.balance),
                    after)

\* a withdrawal that debits first and checks the funds afterwards
withdraw_debits_first(self, amount, timestamp) ==
    IF ~isinstance_number(amount)
    THEN Raise("TypeError", "Withdrawal amount must be a number.", self)
    ELSE IF amount.v <= 0
    THEN Raise("ValueError", "Withdrawal amount must be positive.", self)
    ELSE LET debited == [self EXCEPT !.balance = @ - amount.v]
             after == _add_transaction(debited, "Withdrawal", -amount.v, timestamp)
         IN  IF debited.balance < 0
             THEN Raise("ValueError", "Insufficient funds.", debited)
             ELSE Return("Withdrew $" \o Fmt2f(amount.v) \o ". New balance: $"
                             \o Fmt2f(after.balance),
                         after)

withdraw(self, amount, timestamp) ==
    IF ~isinstance_number(amount)
    THEN Raise("TypeError", "Withdrawal amount must be a number.", self)
    ELSE IF amount.v <= 0
    THEN Raise("ValueError", "Withdrawal amount must be positive.", self)
    ELSE IF amount.v > self.balance
    THEN Raise("ValueError", "Insufficient funds.", self)
    ELSE LET debited == [self EXCEPT !.balance = @ - amount.v]
             after == _add_transaction(debited, "Withdrawal", -amount.v, timestamp)
         IN  Return("Withdrew $" \o Fmt2f(amount.v) \o ". New balance: $"
                        \o Fmt2f(after.balance),
                    after)

get_balance(self) == self.balance

get_account_details(self) ==
    "Account Number: " \o self.account_number \o "\n"
        \o "Account Holder: " \o self.account_holder_name \o "\n"
        \o "Account Type: " \o self.account_type \o "\n"
        \o "Balance: $" \o Fmt2f(self.balance) \o "\n"
        \o "Creation Date: " \o self.creation_date \o "\n"

get_transaction_history(self) == self.transactions

\* a report that lists the newest transaction first
RECURSIVE HistoryLines_newest_first(_)
HistoryLines_newest_first(transactions) ==
    IF transactions = << >> THEN ""
    ELSE LET transaction == Head(transactions)
         IN  HistoryLines_newest_first(Tail(transactions))
                 \o Strftime(transaction.timestamp) \o " - "
                 \o PadRight(transaction.type, 10) \o ": $"
                 \o PadLeft(Fmt2f(transaction.amount), 8) \o "\n"

RECURSIVE HistoryLines(_)
HistoryLines(transactions) ==
    IF transactions = << >> THEN ""
    ELSE LET transaction == Head(transactions)
         IN  Strftime(transaction.timestamp) \o " - "
                 \o PadRight(transaction.type, 10) \o ": $"
                 \o PadLeft(Fmt2f(transaction.amount), 8) \o "\n"
                 \o HistoryLines(Tail(transactions))

format_transaction_history(self) ==
    IF self.transactions = << >>
    THEN "No transactions yet."
    ELSE Repeat("-", 30) \o "\nTransaction History:\n" \o Repeat("-", 30) \o "\n"
             \o HistoryLines(self.transactions)
             \o Repeat("-", 30)

(***************************************************************************)
(* class BankingSystem                                                     *)
(***************************************************************************)
BankingSystem_init == << >>

\* self.accounts[key] = account
SetItem(mapping, key, value) ==
    [k \in DOMAIN mapping \cup {key} |-> IF k = key THEN value ELSE mapping[k]]

\* del self.accounts[key]
DelItem(mapping, key) == [k \in DOMAIN mapping \ {key} |-> mapping[k]]

\* a ledger keyed by holder name: self.accounts[account_holder_name] = account
create_account_by_name(self, uuid, account_holder_name, initial_balance, account_type, today) ==
    LET made == BankAccount_init(uuid, account_holder_name, initial_balance,
                                 account_type, today)
    IN  IF made.raised = NoError
        THEN Return("Account created successfully. Account number: "
                        \o made.self.account_number,
                    SetItem(self, account_holder_name, made.self))
        ELSE Return("Account creation failed: " \o made.value, self)

create_account(self, uuid, account_holder_name, initial_balance, account_type, today) ==
    LET made == BankAccount_init(uuid, account_holder_name, initial_balance,
                                 account_type, today)
    IN  IF made.raised = NoError
        THEN Return("Account created successfully. Account number: "
                        \o made.self.account_number,
                    SetItem(self, made.self.account_number, made.self))
        ELSE Return("Account creation failed: " \o made.value, self)

get_account(self, account_number) ==
    IF account_number \in DOMAIN self THEN self[account_number] ELSE None

\* a delete that reports success and removes nothing
delete_account_keeps(self, account_number) ==
    IF account_number \in DOMAIN self
    THEN Return("Account " \o account_number \o " deleted successfully.", self)
    ELSE Return("Account " \o account_number \o " not found.", self)

\* a delete that empties the ledger: self.accounts.clear()
delete_account_clears(self, account_number) ==
    IF account_number \in DOMAIN self
    THEN Return("Account " \o account_number \o " deleted successfully.",
                BankingSystem_init)
    ELSE Return("Account " \o account_number \o " not found.", self)

delete_account(self, account_number) ==
    IF account_number \in DOMAIN self
    THEN Return("Account " \o account_number \o " deleted successfully.",
                DelItem(self, account_number))
    ELSE Return("Account " \o account_number \o " not found.", self)

\* self.accounts.items(): a dict iterates in insertion order, and a key is
\* inserted by create_account only, in the order uuid4 returned the keys
Items(self, order) == SelectSeq(order, LAMBDA k : k \in DOMAIN self)

RECURSIVE DetailsBlocks(_, _)
DetailsBlocks(self, keys) ==
    IF keys = << >> THEN ""
    ELSE get_account_details(self[Head(keys)]) \o Repeat("-", 30) \o "\n"
             \o DetailsBlocks(self, Tail(keys))

list_all_accounts(self, order) ==
    IF DOMAIN self = {}
    THEN "No accounts in the system."
    ELSE Repeat("-", 30) \o "\nList of All Accounts:\n" \o Repeat("-", 30) \o "\n"
             \o DetailsBlocks(self, Items(self, order))

(***************************************************************************)
(* The classes driven by a caller that holds one BankingSystem             *)
(***************************************************************************)
Init ==
    /\ accounts = BankingSystem_init
    /\ issued = << >>
    /\ now = 0
    /\ opened = << >>
    /\ last = [op |-> "start"]

\* an identifier generator that may return an identifier again once its
\* account has left the ledger
CreateAccount_reissues ==
    \E uuid \in AccountNumbers, name \in HolderNames,
       initial_balance \in BalanceInputs, account_type \in AccountTypes :
        LET made == BankAccount_init(uuid, name, initial_balance, account_type, date_today(now))
            r == create_account(accounts, uuid, name, initial_balance, account_type, date_today(now))
            constructed == made.raised = NoError
        IN  /\ constructed => uuid \notin DOMAIN accounts
            /\ accounts' = r.self
            /\ issued' = IF constructed THEN Append(issued, uuid) ELSE issued
            /\ opened' = IF constructed THEN SetItem(opened, uuid, initial_balance.v)
                                        ELSE opened
            /\ last' = [op |-> "create_account", initial_balance |-> initial_balance,
                        caught |-> made.raised, raised |-> r.raised, value |-> r.value]
            /\ UNCHANGED now

CreateAccount ==
    \E uuid \in AccountNumbers, name \in HolderNames,
       initial_balance \in BalanceInputs, account_type \in AccountTypes :
        LET made == BankAccount_init(uuid, name, initial_balance, account_type, date_today(now))
            r == create_account(accounts, uuid, name, initial_balance, account_type, date_today(now))
            constructed == made.raised = NoError
        IN  \* uuid4 is called once the balance has passed validation, and
            \* never returns the same string twice
            /\ constructed => uuid \notin Range(issued)
            /\ accounts' = r.self
            /\ issued' = IF constructed THEN Append(issued, uuid) ELSE issued
            /\ opened' = IF constructed THEN SetItem(opened, uuid, initial_balance.v)
                                        ELSE opened
            /\ last' = [op |-> "create_account", initial_balance |-> initial_balance,
                        caught |-> made.raised, raised |-> r.raised, value |-> r.value]
            /\ UNCHANGED now

Deposit ==
    \E account_number \in DOMAIN accounts, amount \in AmountInputs :
        LET r == deposit(accounts[account_number], amount, now)
        IN  /\ r.raised = NoError => now < MaxTx
            /\ accounts' = [accounts EXCEPT ![account_number] = r.self]
            /\ now' = IF r.raised = NoError THEN now + 1 ELSE now
            /\ last' = [op |-> "deposit", account_number |-> account_number,
                        amount |-> amount, raised |-> r.raised, value |-> r.value]
            /\ UNCHANGED <<issued, opened>>

Withdraw ==
    \E account_number \in DOMAIN accounts, amount \in AmountInputs :
        LET r == withdraw(accounts[account_number], amount, now)
        IN  /\ r.raised = NoError => now < MaxTx
            /\ accounts' = [accounts EXCEPT ![account_number] = r.self]
            /\ now' = IF r.raised = NoError THEN now + 1 ELSE now
            /\ last' = [op |-> "withdraw", account_number |-> account_number,
                        amount |-> amount, raised |-> r.raised, value |-> r.value]
            /\ UNCHANGED <<issued, opened>>

GetAccount ==
    \E account_number \in LookupInputs :
        /\ last' = [op |-> "get_account", account_number |-> account_number,
                    raised |-> NoError, value |-> get_account(accounts, account_number)]
        /\ UNCHANGED <<accounts, issued, now, opened>>

DeleteAccount ==
    \E account_number \in LookupInputs :
        LET r == delete_account(accounts, account_number)
        IN  /\ accounts' = r.self
            /\ opened' = DelItem(opened, account_number)
            /\ last' = [op |-> "delete_account", account_number |-> account_number,
                        raised |-> r.raised, value |-> r.value]
            /\ UNCHANGED <<issued, now>>

GetBalance ==
    \E account_number \in DOMAIN accounts :
        /\ last' = [op |-> "get_balance", account_number |-> account_number,
                    raised |-> NoError, value |-> get_balance(accounts[account_number])]
        /\ UNCHANGED <<accounts, issued, now, opened>>

GetAccountDetails ==
    \E account_number \in DOMAIN accounts :
        /\ last' = [op |-> "get_account_details", account_number |-> account_number,
                    raised |-> NoError,
                    value |-> get_account_details(accounts[account_number])]
        /\ UNCHANGED <<accounts, issued, now, opened>>

\* a report that consumes the log it prints: transactions.pop(0) in the loop
FormatTransactionHistory_pops ==
    \E account_number \in DOMAIN accounts :
        /\ last' = [op |-> "format_transaction_history",
                    account_number |-> account_number, raised |-> NoError,
                    value |-> format_transaction_history(accounts[account_number])]
        /\ accounts' = [accounts EXCEPT ![account_number].transactions = << >>]
        /\ UNCHANGED <<issued, now, opened>>

FormatTransactionHistory ==
    \E account_number \in DOMAIN accounts :
        /\ last' = [op |-> "format_transaction_history",
                    account_number |-> account_number, raised |-> NoError,
                    value |-> format_transaction_history(accounts[account_number])]
        /\ UNCHANGED <<accounts, issued, now, opened>>

ListAllAccounts ==
    /\ last' = [op |-> "list_all_accounts", raised |-> NoError,
                value |-> list_all_accounts(accounts, issued)]
    /\ UNCHANGED <<accounts, issued, now, opened>>

Next ==
    \/ CreateAccount
    \/ Deposit
    \/ Withdraw
    \/ GetAccount
    \/ DeleteAccount
    \/ GetBalance
    \/ GetAccountDetails
    \/ FormatTransactionHistory
    \/ ListAllAccounts

Spec == Init /\ [][Next]_vars

(***************************************************************************)
(* The script, lines 107-191.  Streamlit runs the whole script again, from *)
(* its first line, for every interaction with a widget; st.button returns  *)
(* True only in the run its click caused.  One action below is one run.    *)
(***************************************************************************)
\* line 107, executed by every run: the name is bound to a new BankingSystem,
\* whatever the run before left in it
module_banking_system(previous_run) == BankingSystem_init

Shown(kind, text, ledger) == [kind |-> kind, text |-> text, accounts |-> ledger]

\* lines 128-133 and 140-145: the exception of deposit/withdraw is not caught,
\* the run ends with it and st.success is not reached
ui_transaction(banking_system, account_number, r) ==
    IF r.raised = NoError
    THEN Shown("success", r.value, [banking_system EXCEPT ![account_number] = r.self])
    ELSE Shown("exception", r.value, banking_system)

\* a Deposit handler without the `if account:` test: on a lookup miss it calls
\* deposit on None and the run ends with the AttributeError
ui_deposit_unguarded(banking_system, account_number, amount, timestamp) ==
    LET account == get_account(banking_system, account_number)
    IN  IF account # None
        THEN ui_transaction(banking_system, account_number,
                            deposit(account, amount, timestamp))
        ELSE Shown("exception", "'NoneType' object has no attribute 'deposit'",
                   banking_system)

ui_deposit(banking_system, account_number, amount, timestamp) ==
    LET account == get_account(banking_system, account_number)
    IN  IF account # None
        THEN ui_transaction(banking_system, account_number,
                            deposit(account, amount, timestamp))
        ELSE Shown("warning", "Account not found.", banking_system)

ui_withdraw(banking_system, account_number, amount, timestamp) ==
    LET account == get_account(banking_system, account_number)
    IN  IF account # None
        THEN ui_transaction(banking_system, account_number,
                            withdraw(account, amount, timestamp))
        ELSE Shown("warning", "Account not found.", banking_system)

ui_check_balance(banking_system, account_number) ==
    LET account == get_account(banking_system, account_number)
    IN  IF account # None
        THEN Shown("success", "Current balance: $" \o Fmt2f(get_balance(account)),
                   banking_system)
        ELSE Shown("warning", "Account not found.", banking_system)

ui_account_details(banking_system, account_number) ==
    LET account == get_account(banking_system, account_number)
    IN  IF account # None
        THEN Shown("text", get_account_details(account), banking_system)
        ELSE Shown("warning", "Account not found.", banking_system)

ui_transaction_history(banking_system, account_number) ==
    LET account == get_account(banking_system, account_number)
    IN  IF account # None
        THEN Shown("text", format_transaction_history(account), banking_system)
        ELSE Shown("warning", "Account not found.", banking_system)

\* lines 182-184
ui_list_all_accounts(banking_system, order) ==
    Shown("text", list_all_accounts(banking_system, order), banking_system)

\* lines 189-191: whatever delete_account answers is shown with st.success
ui_delete_account(banking_system, account_number) ==
    LET r == delete_account(banking_system, account_number)
    IN  Shown("success", r.value, r.self)

Restrict(mapping, keys) == [k \in DOMAIN mapping \cap keys |-> mapping[k]]

\* the end of a run: what it displayed and the ledger it leaves
EndRun(choice, inputs, shown) ==
    /\ accounts' = shown.accounts
    /\ last' = [op |-> "ui", choice |-> choice, inputs |-> inputs,
                kind |-> shown.kind, text |-> shown.text]

RunCreateAccount(banking_system) ==
    \E uuid \in AccountNumbers \ Range(issued), name \in HolderNames,
       initial_balance \in FormBalances, account_type \in AccountTypes :
        LET r == create_account(banking_system, uuid, name,
                                initial_balance, account_type, date_today(now))
        IN  /\ EndRun("Create Account", [initial_balance |-> initial_balance],
                      Shown("success", r.value, r.self))
            /\ issued' = Append(issued, uuid)
            /\ opened' = SetItem(Restrict(opened, DOMAIN banking_system),
                                 uuid, initial_balance.v)
            /\ UNCHANGED now

RunDeposit(banking_system) ==
    \E account_number \in LookupInputs, amount \in FormAmounts :
        LET shown == ui_deposit(banking_system, account_number, amount, now)
        IN  /\ shown.kind = "success" => now < MaxTx
            /\ EndRun("Deposit", [account_number |-> account_number, amount |-> amount],
                      shown)
            /\ now' = IF shown.kind = "success" THEN now + 1 ELSE now
            /\ opened' = Restrict(opened, DOMAIN shown.accounts)
            /\ UNCHANGED issued

RunWithdraw(banking_system) ==
    \E account_number \in LookupInputs, amount \in FormAmounts :
        LET shown == ui_withdraw(banking_system, account_number, amount, now)
        IN  /\ shown.kind = "success" => now < MaxTx
            /\ EndRun("Withdraw", [account_number |-> account_number, amount |-> amount],
                      shown)
            /\ now' = IF shown.kind = "success" THEN now + 1 ELSE now
            /\ opened' = Restrict(opened, DOMAIN shown.accounts)
            /\ UNCHANGED issued

RunCheckBalance(banking_system) ==
    \E account_number \in LookupInputs :
        LET shown == ui_check_balance(banking_system, account_number)
        IN  /\ EndRun("Check Balance", [account_number |-> account_number], shown)
            /\ opened' = Restrict(opened, DOMAIN shown.accounts)
            /\ UNCHANGED <<issued, now>>

RunAccountDetails(banking_system) ==
    \E account_number \in LookupInputs :
        LET shown == ui_account_details(banking_system, account_number)
        IN  /\ EndRun("Account Details", [account_number |-> account_number], shown)
            /\ opened' = Restrict(opened, DOMAIN shown.accounts)
            /\ UNCHANGED <<issued, now>>

RunTransactionHistory(banking_system) ==
    \E account_number \in LookupInputs :
        LET shown == ui_transaction_history(banking_system, account_number)
        IN  /\ EndRun("Transaction History", [account_number |-> account_number], shown)
            /\ opened' = Restrict(opened, DOMAIN shown.accounts)
            /\ UNCHANGED <<issued, now>>

RunListAllAccounts(banking_system) ==
    /\ EndRun("List All Accounts", << >>,
              ui_list_all_accounts(banking_system, issued))
    /\ opened' = Restrict(opened, DOMAIN banking_system)
    /\ UNCHANGED <<issued, now>>

RunDeleteAccount(banking_system) ==
    \E account_number \in LookupInputs :
        LET shown == ui_delete_account(banking_system, account_number)
        IN  /\ EndRun("Delete Account", [account_number |-> account_number], shown)
            /\ opened' = Restrict(opened, DOMAIN shown.accounts)
            /\ UNCHANGED <<issued, now>>

\* a run no button click caused: another menu entry chosen, a field edited
RunNoButton(banking_system) ==
    /\ EndRun("no button", << >>, Shown("nothing", "", banking_system))
    /\ opened' = Restrict(opened, DOMAIN banking_system)
    /\ UNCHANGED <<issued, now>>

UICreateAccount == RunCreateAccount(module_banking_system(accounts))
UIDeposit == RunDeposit(module_banking_system(accounts))
UIWithdraw == RunWithdraw(module_banking_system(accounts))
UICheckBalance == RunCheckBalance(module_banking_system(accounts))
UIAccountDetails == RunAccountDetails(module_banking_system(accounts))
UITransactionHistory == RunTransactionHistory(module_banking_system(accounts))
UIListAllAccounts == RunListAllAccounts(module_banking_system(accounts))
UIDeleteAccount == RunDeleteAccount(module_banking_system(accounts))
UIRerun == RunNoButton(module_banking_system(accounts))

NextUI ==
    \/ UIDeleteAccount
    \/ UIListAllAccounts
    \/ UITransactionHistory
    \/ UIAccountDetails
    \/ UICheckBalance
    \/ UIWithdraw
    \/ UIDeposit
    \/ UICreateAccount
    \/ UIRerun

SpecUI == Init /\ [][NextUI]_vars

(***************************************************************************)
(* Properties                                                              *)
(***************************************************************************)
RECURSIVE SumAmounts(_)
SumAmounts(transactions) ==
    IF transactions = << >> THEN 0
    ELSE Head(transactions).amount + SumAmounts(Tail(transactions))

IsCall(call, op) == call.op = op
Succeeded(call) == call.raised = NoError
ValidAmount(x) == isinstance_number(x) /\ x.v > 0
ValidInitialBalance(x) == isinstance_number(x) /\ x.v >= 0
InvalidArgument(call) ==
    \/ call.raised = "TypeError"
    \/ call.raised = "ValueError" /\ call.value # "Insufficient funds."
InsufficientFunds(call) ==
    call.raised = "ValueError" /\ call.value = "Insufficient funds."
\* the log after is the log before with one record (type, amount) added at its end
AppendedOne(before, after, type, amount) ==
    /\ Len(after) = Len(before) + 1
    /\ SubSeq(after, 1, Len(before)) = before
    /\ after[Len(after)].type = type
    /\ after[Len(after)].amount = amount

\* C1: in every reachable state the balance of every account of the ledger
\* is greater than or equal to zero.
C1_BalanceNeverNegative ==
    \A n \in DOMAIN accounts : accounts[n].balance >= 0

\* a withdrawal of the whole balance has just succeeded
C1_Witness ==
    /\ IsCall(last, "withdraw") /\ Succeeded(last)
    /\ accounts[last.account_number].balance = 0

\* C2: in every reachable state each account's balance is its initial balance
\* plus the sum of the signed amounts of the records of its log.
C2_BalanceIsInitialPlusLog ==
    \A n \in DOMAIN accounts :
        accounts[n].balance = opened[n] + SumAmounts(accounts[n].transactions)

\* a call has just failed on an account that holds a deposit and a withdrawal
C2_Witness ==
    /\ last.op \in {"deposit", "withdraw"} /\ ~Succeeded(last)
    /\ {t.type : t \in Range(accounts[last.account_number].transactions)}
           = {"Deposit", "Withdrawal"}

\* C4: withdraw with a number greater than the balance signals
\* InsufficientFunds and leaves every balance and log as it was.
C4_OverdrawRejected ==
    [][(/\ IsCall(last', "withdraw")
        /\ isinstance_number(last'.amount)
        /\ last'.amount.v > accounts[last'.account_number].balance)
       => /\ InsufficientFunds(last')
          /\ accounts' = accounts]_vars

\* an overdraw has just been rejected on an account with money and a log
C4_Witness ==
    /\ IsCall(last, "withdraw") /\ InsufficientFunds(last)
    /\ accounts[last.account_number].balance > 0
    /\ accounts[last.account_number].transactions # << >>

\* C5: deposit or withdraw with a non-number or an amount <= 0 signals
\* InvalidArgument and changes nothing; construction with a non-number or a
\* negative initial balance signals InvalidArgument and adds no account.
C5_InvalidArgumentNoChange ==
    [][/\ (/\ last'.op \in {"deposit", "withdraw"}
           /\ ~ValidAmount(last'.amount))
          => /\ InvalidArgument(last')
             /\ accounts' = accounts
       /\ (/\ IsCall(last', "create_account")
           /\ ~ValidInitialBalance(last'.initial_balance))
          => /\ last'.caught \in {"TypeError", "ValueError"}
             /\ accounts' = accounts]_vars

\* a deposit of zero has just been rejected on an account with a log
C5_Witness ==
    /\ IsCall(last, "deposit") /\ InvalidArgument(last)
    /\ isinstance_number(last.amount) /\ last.amount.v = 0
    /\ accounts[last.account_number].transactions # << >>

\* C6: deposit of an amount > 0 raises the balance by exactly the amount and
\* adds exactly one record, Deposit with +amount, at the end of the log.
C6_DepositCredits ==
    [][(IsCall(last', "deposit") /\ ValidAmount(last'.amount))
       => LET n == last'.account_number
          IN  /\ Succeeded(last')
              /\ accounts'[n].balance = accounts[n].balance + last'.amount.v
              /\ AppendedOne(accounts[n].transactions, accounts'[n].transactions,
                             "Deposit", last'.amount.v)]_vars

\* a deposit has just been added behind an earlier record
C6_Witness ==
    /\ IsCall(last, "deposit") /\ Succeeded(last)
    /\ Len(accounts[last.account_number].transactions) = 2

\* C7: withdraw of an amount with 0 < amount <= balance succeeds, lowers the
\* balance by exactly the amount and adds exactly one record, Withdrawal
\* with -amount, at the end of the log.
C7_WithdrawDebits ==
    [][(/\ IsCall(last', "withdraw")
        /\ ValidAmount(last'.amount)
        /\ last'.amount.v <= accounts[last'.account_number].balance)
       => LET n == last'.account_number
          IN  /\ Succeeded(last')
              /\ accounts'[n].balance = accounts[n].balance - last'.amount.v
              /\ AppendedOne(accounts[n].transactions, accounts'[n].transactions,
                             "Withdrawal", -last'.amount.v)]_vars

\* the whole balance has just been withdrawn, behind an earlier record
C7_Witness ==
    /\ IsCall(last, "withdraw") /\ Succeeded(last)
    /\ accounts[last.account_number].balance = 0
    /\ Len(accounts[last.account_number].transactions) = 2
    /\ accounts[last.account_number].transactions[2].amount = -2

\* C8: create_account never raises; on a rejected initial balance it returns
\* a failure message and the ledger is unchanged; otherwise it adds exactly
\* one entry, under the fresh identifier its message ends with, and changes
\* no other entry.
C8_CreateAtLedgerBoundary ==
    [][IsCall(last', "create_account")
       => /\ Succeeded(last')
          /\ IF ValidInitialBalance(last'.initial_balance)
             THEN \E n \in AccountNumbers \ (Range(issued) \cup DOMAIN accounts) :
                    /\ last'.value = "Account created successfully. Account number: " \o n
                    /\ DOMAIN accounts' = DOMAIN accounts \cup {n}
                    /\ accounts'[n].account_number = n
                    /\ \A k \in DOMAIN accounts : accounts'[k] = accounts[k]
             ELSE /\ last'.value \in
                        {"Account creation failed: Initial balance must be a number.",
                         "Account creation failed: Initial balance cannot be negative."}
                  /\ accounts' = accounts]_vars

\* an account has just been created beside an existing one
C8_Witness ==
    /\ IsCall(last, "create_account") /\ last.caught = NoError
    /\ Cardinality(DOMAIN accounts) = 2

\* C9: get_account on an identifier never inserted returns None; right after
\* create_account with a valid initial balance, get_account on the identifier
\* of the message returns an account with that balance and an empty log.
C9_LookupAfterCreate ==
    /\ (IsCall(last, "get_account") /\ last.account_number \notin Range(issued))
       => last.value = None
    /\ (IsCall(last, "create_account") /\ ValidInitialBalance(last.initial_balance))
       => \E n \in AccountNumbers :
            /\ last.value = "Account created successfully. Account number: " \o n
            /\ get_account(accounts, n) # None
            /\ get_balance(get_account(accounts, n)) = last.initial_balance.v
            /\ get_transaction_history(get_account(accounts, n)) = << >>

\* an account has just been created with a balance of 2
C9_Witness ==
    /\ IsCall(last, "create_account") /\ last.caught = NoError
    /\ last.initial_balance.v = 2
    /\ Len(issued) = 2

\* C10: delete_account on a key of the ledger removes it and returns the
\* success message, and the key is absent from then on; on any other
\* identifier it returns the not-found message and changes nothing.
C10_DeleteRemoves ==
    [][/\ IsCall(last', "delete_account")
          => LET n == last'.account_number
             IN  IF n \in DOMAIN accounts
                 THEN /\ last'.value = "Account " \o n \o " deleted successfully."
                      /\ accounts' = DelItem(accounts, n)
                      /\ get_account(accounts', n) = None
                 ELSE /\ last'.value = "Account " \o n \o " not found."
                      /\ accounts' = accounts
       /\ \A n \in Range(issued) \ DOMAIN accounts : get_account(accounts', n) = None]_vars

\* an identifier deleted before has just been deleted again
C10_Witness ==
    /\ IsCall(last, "delete_account")
    /\ last.account_number \in Range(issued)
    /\ last.value = "Account " \o last.account_number \o " not found."

\* C3: the ledger is created once and lives for the process lifetime: an
\* account stored by a Create run is still found by get_account in every
\* later run, unchanged by the runs that do not deposit to or withdraw from
\* it, until a Delete run removes it.
C3_LedgerOutlivesTheRun ==
    [][\A n \in DOMAIN accounts :
          ~(last'.choice = "Delete Account" /\ last'.inputs.account_number = n)
          => /\ get_account(accounts', n) # None
             /\ last'.choice \notin {"Deposit", "Withdraw"}
                => get_account(accounts', n) = accounts[n]]_vars

IsPrefix(before, after) ==
    /\ Len(before) <= Len(after)
    /\ SubSeq(after, 1, Len(before)) = before

Removed == Range(issued) \ DOMAIN accounts

\* C11: each account's log is append-only: across every step the log before
\* is a prefix of the log after, for every account that stays in the ledger.
C11_LogAppendOnly ==
    [][\A n \in DOMAIN accounts \cap DOMAIN accounts' :
          IsPrefix(accounts[n].transactions, accounts'[n].transactions)]_vars

\* a second record has just been added behind the first, which is still there
C11_Witness ==
    /\ last.op \in {"deposit", "withdraw"} /\ Succeeded(last)
    /\ LET log == accounts[last.account_number].transactions
       IN  /\ Len(log) = 2
           /\ log[1].timestamp < log[2].timestamp
           /\ log[1].type = "Withdrawal"

\* C12: no reopen after delete: an identifier removed by delete_account is
\* never again a key of the ledger, and a later call that names it finds no
\* account (None or the not-found message) and changes nothing.
C12_NoReopen ==
    [][\A n \in Removed :
          /\ n \notin DOMAIN accounts'
          /\ (/\ last'.op \in {"deposit", "withdraw", "get_account", "delete_account",
                              "get_balance", "get_account_details",
                              "format_transaction_history"}
              /\ last'.account_number = n)
             => /\ last'.op \in {"get_account", "delete_account"}
                /\ IsCall(last', "get_account") => last'.value = None
                /\ IsCall(last', "delete_account")
                   => last'.value = "Account " \o n \o " not found."
                /\ accounts' = accounts]_vars

\* a removed identifier has just been looked up while a later account exists
C12_Witness ==
    /\ IsCall(last, "get_account")
    /\ last.account_number \in Removed
    /\ last.value = None
    /\ Len(issued) = 2 /\ issued[2] \in DOMAIN accounts

UIChoices ==
    {"Create Account", "Deposit", "Withdraw", "Check Balance", "Account Details",
     "Transaction History", "List All Accounts", "Delete Account"}
UIChoicesWithNumber ==
    {"Deposit", "Withdraw", "Check Balance", "Account Details",
     "Transaction History", "Delete Account"}

\* C13: every one of the 8 UI operations, for every input its form admits,
\* ends with a result shown as success, warning or plain text; none ends
\* with an exception nobody handled.
C13_EveryActionShowsAResult ==
    (last.op = "ui" /\ last.choice \in UIChoices)
    => last.kind \in {"success", "warning", "text"}

\* the Deposit form has just been submitted with its default amount 0 and the
\* number of an account an earlier run created, and a warning was shown
C13_Witness ==
    /\ last.op = "ui" /\ last.choice = "Deposit"
    /\ last.inputs.amount = Num(0)
    /\ last.inputs.account_number \in Range(issued)
    /\ last.kind = "warning" /\ last.text = "Account not found."

\* C14: a UI action given an identifier that is not a key of the ledger
\* raises nothing, is shown as a warning, not as a success, and leaves the
\* ledger as it was.
C14_UnknownNumberIsAWarning ==
    [][(/\ last'.op = "ui"
        /\ last'.choice \in UIChoicesWithNumber
        /\ last'.inputs.account_number \notin DOMAIN accounts)
       => /\ last'.kind = "warning"
          /\ accounts' = accounts]_vars

ReadCalls ==
    {"get_balance", "get_account_details", "format_transaction_history",
     "get_account", "list_all_accounts"}

\* C15: get_balance, get_account_details, format_transaction_history,
\* get_account and list_all_accounts change neither the mapping nor any
\* balance or log, and get_balance returns exactly the current balance.
C15_ReadsChangeNothing ==
    [][last'.op \in ReadCalls
       => /\ accounts' = accounts
          /\ IsCall(last', "get_balance")
             => last'.value = accounts[last'.account_number].balance]_vars

\* the history of an account with two records has just been formatted, and
\* the two records are still there
C15_Witness ==
    /\ IsCall(last, "format_transaction_history")
    /\ Len(accounts[last.account_number].transactions) = 2
    /\ accounts[last.account_number].balance = 1

\* C16: the identifier, holder name, account type and creation date of an
\* account never change; no two accounts of the ledger share an identifier
\* and every key is the identifier of the account it maps to.
C16_IdentityFixed ==
    [][/\ \A n \in DOMAIN accounts \cap DOMAIN accounts' :
            /\ accounts'[n].account_number = accounts[n].account_number
            /\ accounts'[n].account_holder_name = accounts[n].account_holder_name
            /\ accounts'[n].account_type = accounts[n].account_type
            /\ accounts'[n].creation_date = accounts[n].creation_date
       /\ \A k \in DOMAIN accounts' : accounts'[k].account_number = k
       /\ \A j, k \in DOMAIN accounts' :
            j # k => accounts'[j].account_number # accounts'[k].account_number]_vars

\* two accounts are in the ledger and one of them has just been changed
C16_Witness ==
    /\ last.op \in {"deposit", "withdraw"} /\ Succeeded(last)
    /\ Cardinality(DOMAIN accounts) = 2
    /\ \A k \in DOMAIN accounts : accounts[k].account_number = k

\* one line of the history, as section 4.1 of the specification lays it out:
\* the time, the type in a field of 10, the signed amount in a field of 8
ExpectedLine(transaction) ==
    Strftime(transaction.timestamp) \o " - "
        \o transaction.type \o (IF transaction.type = "Deposit" THEN "   " ELSE "")
        \o ": $"
        \o (IF transaction.amount < 0 THEN "   -" ELSE "    ")
        \o ToString(IF transaction.amount < 0 THEN -transaction.amount
                                              ELSE transaction.amount)
        \o ".00\n"

\* the lines of records i, i+1, ... of the log, in that order
RECURSIVE ExpectedLinesFrom(_, _)
ExpectedLinesFrom(log, i) ==
    IF i > Len(log) THEN ""
    ELSE ExpectedLine(log[i]) \o ExpectedLinesFrom(log, i + 1)

\* C17: format_transaction_history returns the no-transactions message
\* exactly when the log is empty; otherwise its text is the heading followed
\* by one line per record of the log, in append order, and nothing else.
C17_HistoryListsTheLog ==
    IsCall(last, "format_transaction_history")
    => LET log == accounts[last.account_number].transactions
           border == "------------------------------"
       IN  /\ last.value = "No transactions yet." <=> log = << >>
           /\ log # << >>
              => last.value = border \o "\nTransaction History:\n" \o border \o "\n"
                                  \o ExpectedLinesFrom(log, 1) \o border

\* the history of a deposit followed by a withdrawal has just been formatted
C17_Witness ==
    /\ IsCall(last, "format_transaction_history")
    /\ LET log == accounts[last.account_number].transactions
       IN  /\ Len(log) = 2
           /\ log[1].type = "Deposit" /\ log[1].amount = 2
           /\ log[2].type = "Withdrawal" /\ log[2].amount = -1

\* C18: a deposit or withdraw leaves the key set and every other account as
\* they were; create_account and delete_account leave the balance and the
\* log of every other account as they were.
C18_OtherAccountsUntouched ==
    [][/\ last'.op \in {"deposit", "withdraw"}
          => /\ DOMAIN accounts' = DOMAIN accounts
             /\ \A m \in DOMAIN accounts \ {last'.account_number} :
                    accounts'[m] = accounts[m]
       /\ IsCall(last', "create_account")
          => \A m \in DOMAIN accounts :
                /\ m \in DOMAIN accounts'
                /\ accounts'[m].balance = accounts[m].balance
                /\ accounts'[m].transactions = accounts[m].transactions
       /\ IsCall(last', "delete_account")
          => \A m \in DOMAIN accounts \ {last'.account_number} :
                /\ m \in DOMAIN accounts'
                /\ accounts'[m].balance = accounts[m].balance
                /\ accounts'[m].transactions = accounts[m].transactions]_vars

\* one of two accounts has just been deleted and the other holds a record
C18_Witness ==
    /\ IsCall(last, "delete_account")
    /\ last.account_number \in Removed
    /\ last.value = "Account " \o last.account_number \o " deleted successfully."
    /\ \E m \in DOMAIN accounts : accounts[m].transactions # << >>

=============================================================================
